---- MODULE Spec2Model ----
(***************************************************************************)
(* Pipeline orchestration of the mammography-report services:               *)
(* document-ingestion -> document-parsing -> information-structuring ->     *)
(* risk-prediction.  Every service is a single asyncio process; a handler   *)
(* runs without interruption until it awaits real I/O (an HTTP call, the    *)
(* executor running the document conversion), so every action below is the  *)
(* code between two such suspension points.                                 *)
(***************************************************************************)
EXTENDS Integers, Naturals, Sequences, FiniteSets, TLC

\* SpecAccess is the bearer-token validation in front of the routes of the
\* ingestion and prediction services; SpecEndToEnd is one upload with every
\* service reachable; SpecInFlight is one upload deleted while its parse runs.
\* Spec is the whole pipeline.  SpecStructuring is the structuring stage with
\* the ingestion service.  SpecResults is the pipeline with the status
\* endpoints of the ingestion service unreachable: no stage reads what the
\* ingestion service stores, so the result tables behave as under Spec.

\* ------------------------------------------------------------------ bounds
\* stage runs (parse_document and structure_document calls) in one behaviour
MaxRuns == 2

Docs == {"d1"}
Texts == {"t1", "t2"}
UploadContents == {"t2"}
StructTexts == {"t1"}
LocalTxt == "local.txt"
Paths == Docs \cup {LocalTxt}

NoFile == "nofile"
NoText == ""
NoErr == "null"
NoDoc == "none"
NoRow == [id |-> 0]

ParseRunIds == 1..MaxRuns
StructRunIds == 1..MaxRuns

VARIABLES
    documents,      \* ingestion: Document table, document id -> status
    issued,         \* ingestion: document ids already generated
    ledger,         \* ingestion: ProcessingStatus table, in insertion order
    files,          \* storage: path -> content
    uploads,        \* ingestion: position of each upload_document call
    delPending,     \* delete-internal calls in flight to the parsing service
    parsingDb,      \* parsing: ParsingResult table and id generator
    parsedFiles,    \* parsing: PARSED_DIR/<document_id>.md
    parseRuns,      \* parsing: position of each parse_document call
    structDb,       \* structuring: StructuringResult table and id generator
    resultFiles,    \* structuring: RESULTS_DIR/<document_id>.json
    structRuns,     \* structuring: position of each structure_document call
    predictCalls,   \* prediction: predict-internal requests received, per document
    predictions,    \* prediction: Prediction table, document id -> row
    bearer,         \* the Authorization header the client sends
    response        \* the last answer to a call of a route, where recorded

vars == <<documents, issued, ledger, files, uploads, delPending, parsingDb,
          parsedFiles, parseRuns, structDb, resultFiles, structRuns,
          predictCalls, predictions, bearer, response>>

ingestionVars == <<documents, issued, ledger, files, uploads, delPending>>
parsingVars == <<parsingDb, parsedFiles, parseRuns>>
structVars == <<structDb, resultFiles, structRuns, predictCalls>>
predictionVars == <<predictions, bearer, response>>

\* ------------------------------------------------------- result tables
\* rows of a table that belong to a document
RowsOf(rows, d) == {r \in rows : r.document_id = d}

\* query(...).filter(document_id == d).first()
First(rows, d) ==
    IF RowsOf(rows, d) = {} THEN NoRow
    ELSE CHOOSE r \in RowsOf(rows, d) : \A q \in RowsOf(rows, d) : r.id <= q.id

\* the table without its unique constraint
UniqueViolationNoConstraint(rows, d) == FALSE

\* document_id = Column(String, nullable=False, unique=True)
UniqueViolation(rows, d) == RowsOf(rows, d) /= {}

\* db.add(row); db.commit(): the row gets a fresh id unless the unique
\* constraint rejects it
Insert(db, row) ==
    IF UniqueViolation(db.rows, row.document_id) THEN db
    ELSE [rows |-> db.rows \cup {[row EXCEPT !.id = db.next]},
          next |-> db.next + 1]

\* obj.field = ...; db.commit(): UPDATE ... WHERE id = obj.id
Update(db, old, new) ==
    [db EXCEPT !.rows = (db.rows \ {old}) \cup {new}]

\* db.delete(result); db.commit()
Delete(db, d) ==
    IF First(db.rows, d) = NoRow THEN db
    ELSE [db EXCEPT !.rows = db.rows \ {First(db.rows, d)}]

\* ---------------------------------------------------------- ingestion
\* a record(...) that overwrites the entry the service last wrote for the
\* document instead of adding one
add_processing_status_overwrite(l, d, service, status, err) ==
    LET e == [document_id |-> d, service_name |-> service,
              status |-> status, error_message |-> err]
        mine == {i \in 1..Len(l) : l[i].document_id = d /\ l[i].service_name = service}
    IN IF mine = {} THEN Append(l, e)
       ELSE [l EXCEPT ![CHOOSE i \in mine : \A j \in mine : j <= i] = e]

\* DocumentService.add_processing_status
add_processing_status(l, d, service, status, err) ==
    Append(l, [document_id |-> d, service_name |-> service,
               status |-> status, error_message |-> err])

\* DocumentService.update_document_status
update_document_status(docs, d, status) ==
    IF docs[d] = NoDoc THEN docs ELSE [docs EXCEPT ![d] = status]

\* ------------------------------------------------------------ parsing
ParsingRow(d, text, status, progress, err) ==
    [id |-> 0, document_id |-> d, extracted_text |-> text, status |-> status,
     progress |-> progress, error_message |-> err]

\* update_parsing_progress overwriting the progress of an existing row only
update_parsing_progress_keeps_status(db, d, status, progress) ==
    LET existing == First(db.rows, d) IN
    IF existing /= NoRow
    THEN Update(db, existing, [existing EXCEPT !.progress = progress])
    ELSE Insert(db, ParsingRow(d, NoText, status, progress, NoErr))

\* DocumentParsingService.update_parsing_progress
update_parsing_progress(db, d, status, progress) ==
    LET existing == First(db.rows, d) IN
    IF existing /= NoRow
    THEN Update(db, existing,
                [existing EXCEPT !.status = status, !.progress = progress])
    ELSE Insert(db, ParsingRow(d, NoText, status, progress, NoErr))

\* the progress updates of one stretch of parse_document, in order
RECURSIVE ProgressSteps(_, _, _)
ProgressSteps(db, d, steps) ==
    IF steps = <<>> THEN db
    ELSE ProgressSteps(update_parsing_progress(db, d, "processing", Head(steps)),
                       d, Tail(steps))

\* GET /parsing/progress/{document_id}: what a poll reads (status, progress)
get_parsing_progress(db, d) ==
    IF First(db.rows, d) = NoRow
    THEN [status |-> "pending", progress |-> 0]
    ELSE [status |-> First(db.rows, d).status,
          progress |-> First(db.rows, d).progress]

\* the row of d as it stands after each of the progress updates
RECURSIVE ProgressLog(_, _, _)
ProgressLog(db, d, steps) ==
    IF steps = <<>> THEN <<>>
    ELSE LET nxt == update_parsing_progress(db, d, "processing", Head(steps))
         IN <<get_parsing_progress(nxt, d)>> \o ProgressLog(nxt, d, Tail(steps))

\* a blind insert in place of the query-then-update-or-insert
SaveCompletedBlindInsert(db, d, text) ==
    Insert(db, ParsingRow(d, text, "completed", 100, NoErr))

\* parse_document, lines 110-136: upsert of the completed result
SaveCompleted(db, d, text) ==
    LET existing == First(db.rows, d) IN
    IF existing /= NoRow
    THEN Update(db, existing,
                [existing EXCEPT !.extracted_text = text,
                                 !.status = "completed",
                                 !.progress = 100,
                                 !.error_message = NoErr])
    ELSE Insert(db, ParsingRow(d, text, "completed", 100, NoErr))

\* parse_document, lines 156-180: upsert of the failed result
SaveFailed(db, d, err) ==
    LET existing == First(db.rows, d) IN
    IF existing /= NoRow
    THEN Update(db, existing,
                [existing EXCEPT !.extracted_text = NoText,
                                 !.status = "failed",
                                 !.progress = 0,
                                 !.error_message = err])
    ELSE Insert(db, ParsingRow(d, NoText, "failed", 0, err))

\* os.path.splitext(file_path)[1].lower()
file_extension(p) == IF p = LocalTxt THEN ".txt" ELSE ".pdf"

\* written: the (status, progress) the call has left in its document's row,
\* write by write.
\* via: the route the call came in by, "parse" (POST /parsing/parse, awaited
\* by the route) or "internal" (POST /parsing/parse-internal, run as a
\* background task)
IdleParseRun ==
    [pc |-> "idle", via |-> "none", doc |-> NoDoc, path |-> LocalTxt,
     text |-> NoText, err |-> NoErr, patched |-> FALSE, sent |-> 0, ret |-> 0,
     written |-> <<>>]

\* the /parsing/parse route without its "except FileNotFoundError" clause
ParseResponseNoNotFound(run) ==
    IF run.via = "internal" THEN "processing"
    ELSE IF run.pc = "done" THEN "200"
    ELSE IF run.pc = "raised" THEN "500"
    ELSE "none"

\* what the caller of a parse_document run is answered: routes/parsing.py
\* 22-39 for /parsing/parse (the route awaits the call and maps what it
\* raises), 157-162 for parse-internal (answered when the task is queued;
\* process_document_async swallows whatever the call raises)
ParseResponse(run) ==
    IF run.via = "internal" THEN "processing"
    ELSE IF run.pc = "done" THEN "200"
    ELSE IF run.pc = "raised"
    THEN IF run.err = "File not found" THEN "404" ELSE "500"
    ELSE "none"

Started ==
    Cardinality({r \in ParseRunIds : parseRuns[r].pc /= "idle"})
      + Cardinality({s \in StructRunIds : structRuns[s].pc /= "idle"})

FreeParseRun(r) ==
    /\ Started < MaxRuns
    /\ parseRuns[r].pc = "idle"
    /\ \A q \in ParseRunIds : q < r => parseRuns[q].pc /= "idle"

\* a trigger whose failed HTTP call is not caught
TriggerRaisesUncaught(delivered) == ~delivered

\* trigger_structuring_service / trigger_risk_prediction_service /
\* trigger_parsing_service: "except Exception" around the HTTP call, so a
\* failed call never raises into the caller
TriggerRaises(delivered) == FALSE

\* a status report whose failed HTTP call is not caught
ReportRaisesUncaught(reach) == ~reach

\* update_document_status of both stages: "except Exception" around the POST
\* and the PATCH, so a report that cannot be delivered never raises into
\* parse_document or structure_document
ReportRaises(reach) == FALSE

\* ---------------------------------------------------------- structuring
\* schemas.StructuredData: the closed set of fields, each defaulting to "unknown"
Fields ==
    {"indication", "family_history_breast_pathology", "clinical_exam_result",
     "skin_abnormalities", "nipple_abnormalities", "gland_density",
     "calcifications_present", "architectural_distortion", "retracted_areas",
     "suspicious_lymph_nodes", "evaluation_possible", "findings_summary",
     "acr_density_type", "birads_score", "followup_recommended",
     "recommendation_text", "lmp", "hormonal_therapy", "age", "children"}

\* the substrings the rule-based extractor looks for, per report text:
\* t1 stands for "MAMMOGRAPHY REPORT ... BI-RADS 2 ... routine follow-up",
\* t2 for a text without any keyword
Keywords(text) ==
    IF text = "t1" THEN {"bi-rads", "2", "routine", "follow", "up"} ELSE {}

\* InformationStructuringService.create_mock_structured_data (the second
\* definition in the class body, which is the one in effect)
create_mock_structured_data(text) ==
    LET k == Keywords(text)
        birads == IF "bi-rads" \in k \/ "birads" \in k
                  THEN IF "2" \in k THEN "2"
                       ELSE IF "3" \in k THEN "3"
                       ELSE IF "4" \in k THEN "4" ELSE "unknown"
                  ELSE "unknown"
        dense == IF "dense" \in k
                 THEN IF "heterogeneously" \in k THEN "C"
                      ELSE IF "extremely" \in k THEN "D" ELSE "unknown"
                 ELSE "unknown"
    IN [f \in Fields |->
         CASE f = "indication" ->
                IF "routine" \in k /\ "screening" \in k
                THEN "routine screening" ELSE "unknown"
           [] f = "birads_score" -> birads
           [] f = "acr_density_type" -> dense
           [] f = "gland_density" ->
                IF dense = "C" THEN "heterogeneously dense"
                ELSE IF dense = "D" THEN "extremely dense" ELSE "unknown"
           [] f = "followup_recommended" ->
                IF "follow" \in k /\ "up" \in k THEN "yes" ELSE "unknown"
           [] f = "recommendation_text" ->
                IF "follow" \in k /\ "up" \in k
                THEN "Follow-up recommended" ELSE "unknown"
           [] f = "findings_summary" ->
                IF "no suspicious" \in k THEN "No suspicious findings" ELSE "unknown"
           [] f = "calcifications_present" ->
                IF "no suspicious" \in k THEN "no" ELSE "unknown"
           [] f = "architectural_distortion" ->
                IF "no suspicious" \in k THEN "none" ELSE "unknown"
           [] OTHER -> "unknown"]

\* the fields of StructuredData in the order of the schema
FieldSeq ==
    <<"indication", "family_history_breast_pathology", "clinical_exam_result",
      "skin_abnormalities", "nipple_abnormalities", "gland_density",
      "calcifications_present", "architectural_distortion", "retracted_areas",
      "suspicious_lymph_nodes", "evaluation_possible", "findings_summary",
      "acr_density_type", "birads_score", "followup_recommended",
      "recommendation_text", "lmp", "hormonal_therapy", "age", "children">>

\* the sets of fields an LLM answer gives a value for: none, the first one,
\* the first two, ... all of them
LlmAnswers == {{FieldSeq[i] : i \in 1..k} : k \in 0..Len(FieldSeq)}

\* an answer with three fields
DefaultAnswer == {"birads_score", "indication", "age"}

\* a StructuredData parsed from the LLM's JSON answer (extract_structured_data
\* line 158): fields the answer leaves out keep their default
LlmData(text, answer) ==
    [f \in Fields |-> IF f \in answer THEN "llm:" \o text ELSE "unknown"]

\* what the call to the LLM can come to: no API key configured, a non-200
\* answer, an answer without candidates, an answer that is not the expected
\* JSON, an exception (timeout, connection, malformed body), a usable answer
LlmOutcomes == {"no_key", "non_200", "no_candidates", "bad_json", "exception", "ok"}

\* extract_structured_data letting a failed LLM call raise
extract_structured_data_no_fallback(text, llm, answer) ==
    IF llm = "ok" THEN [raised |-> FALSE, data |-> LlmData(text, answer)]
    ELSE IF llm = "no_key"
    THEN [raised |-> FALSE, data |-> create_mock_structured_data(text)]
    ELSE [raised |-> TRUE, data |-> create_mock_structured_data(text)]

\* InformationStructuringService.extract_structured_data: every branch that
\* is not a usable answer returns create_mock_structured_data(text)
extract_structured_data(text, llm, answer) ==
    IF llm = "ok" THEN [raised |-> FALSE, data |-> LlmData(text, answer)]
    ELSE [raised |-> FALSE, data |-> create_mock_structured_data(text)]

\* calculate_confidence_score with a floor division
calculate_confidence_score_floor_div(data) ==
    LET total_fields == Cardinality(DOMAIN data)
        unknown_fields == Cardinality({f \in DOMAIN data : data[f] = "unknown"})
    IN ((total_fields - unknown_fields) \div total_fields) * 100

\* InformationStructuringService.calculate_confidence_score, in hundredths:
\* round(x, 2) of the quotient (with 20 fields the quotient is a multiple of
\* 0.05, so no rounding takes place)
calculate_confidence_score(data) ==
    LET total_fields == Cardinality(DOMAIN data)
        unknown_fields == Cardinality({f \in DOMAIN data : data[f] = "unknown"})
    IN ((total_fields - unknown_fields) * 200 + total_fields)
         \div (2 * total_fields)

NoData == [f \in {} |-> "unknown"]
NoScore == -1

StructRow(d, text, data, score, status, err) ==
    [id |-> 0, document_id |-> d, extracted_text |-> text,
     structured_data |-> data, confidence_score |-> score,
     status |-> status, error_message |-> err]

RowById(rows, id) == CHOOSE r \in rows : r.id = id

IdleStructRun ==
    [pc |-> "idle", doc |-> NoDoc, text |-> NoText, existing |-> 0,
     llm |-> "none", data |-> NoData, err |-> NoErr, patched |-> FALSE,
     sent |-> 0, ret |-> 0]

\* what the caller of a structure_document run is answered: both
\* /structuring/structure and structure-internal await the call and answer
\* with the status of the row it returns, or 500 when it raises
\* (routes/structuring.py 28-43, 102-117)
StructResponse(run) ==
    IF run.pc = "done" THEN IF run.err = NoErr THEN "completed" ELSE "failed"
    ELSE IF run.pc = "raised" THEN "500"
    ELSE "none"

FreeStructRun(s) ==
    /\ Started < MaxRuns
    /\ structRuns[s].pc = "idle"
    /\ \A q \in StructRunIds : q < s => structRuns[q].pc /= "idle"

\* a request reaches POST /structuring/structure or structure-internal
SpawnStruct(runs, s, d, text) ==
    [runs EXCEPT ![s] = [IdleStructRun EXCEPT !.pc = "queued", !.doc = d,
                                              !.text = text]]

\* ------------------------------------------------- prediction helpers
\* class labels of the BI-RADS classifier
Labels == 0..6

\* str(label) for a class label
str(label) == <<"0", "1", "2", "3", "4", "5", "6">>[label + 1]

\* the table with BI-RADS 3 filed under low as well
RISK_THRESHOLDS_overlapping ==
    [high |-> {"4", "5", "6"}, medium |-> {"3"}, low |-> {"1", "2", "3"},
     needs_assessment |-> {"0"}]

\* config.RISK_THRESHOLDS
RISK_THRESHOLDS ==
    [high |-> {"4", "5", "6"}, medium |-> {"3"}, low |-> {"1", "2"},
     needs_assessment |-> {"0"}]

\* the buckets of RISK_THRESHOLDS that list a label
BucketsOf(label) ==
    {b \in DOMAIN RISK_THRESHOLDS : str(label) \in RISK_THRESHOLDS[b]}

\* RISK_THRESHOLDS.items() in the order of the dict literal
BucketOrder == <<"high", "medium", "low", "needs_assessment">>

\* the risk level stored with a prediction: the first bucket that lists the
\* label, "unknown" when none does
determine_risk_level(label) ==
    LET hits == {i \in DOMAIN BucketOrder : BucketOrder[i] \in BucketsOf(label)} IN
    IF hits = {} THEN "unknown"
    ELSE BucketOrder[CHOOSE i \in hits : \A j \in hits : i <= j]

NoPrediction == [document_id |-> NoDoc]

\* a Prediction row as generate_prediction stores it; the review overlay
\* starts empty
PredictionRow(d, label) ==
    [document_id |-> d, predicted_label_id |-> label,
     risk_level |-> determine_risk_level(label), status |-> "completed",
     review_status |-> NoErr, coordinator_notes |-> NoErr,
     reviewed_by |-> NoErr, reviewed_at |-> NoErr]

\* the review overlay of a Prediction row
Overlay(row) ==
    IF row = NoPrediction THEN NoPrediction
    ELSE [review_status |-> row.review_status,
          coordinator_notes |-> row.coordinator_notes,
          reviewed_by |-> row.reviewed_by, reviewed_at |-> row.reviewed_at]

\* generate_prediction: one row per document, a rerun updates the row in
\* place and leaves the review overlay as it is
generate_prediction(rows, d, label) ==
    IF rows[d] = NoPrediction
    THEN [rows EXCEPT ![d] = PredictionRow(d, label)]
    ELSE [rows EXCEPT ![d].predicted_label_id = label,
                      ![d].risk_level = determine_risk_level(label),
                      ![d].status = "completed"]

\* ------------------------------------------------------ bearer tokens
\* ReviewStatusUpdate bodies
ReviewStatuses == {"reviewed", "flagged"}
ReviewNotes == {"n1"}

\* no Authorization header
NoToken == [signed |-> FALSE, type |-> "none", role |-> "none", sub |-> "none"]

\* what a client can send: nothing, a token signed with another key, a
\* refresh token, and the access tokens of a clinic admin and a coordinator
Tokens ==
    {NoToken,
     [signed |-> FALSE, type |-> "access", role |-> "gcf_coordinator", sub |-> "u3"],
     [signed |-> TRUE, type |-> "refresh", role |-> "gcf_coordinator", sub |-> "u2"],
     [signed |-> TRUE, type |-> "access", role |-> "clinic_admin", sub |-> "u1"],
     [signed |-> TRUE, type |-> "access", role |-> "gcf_coordinator", sub |-> "u2"]}

get_current_user == {}
get_clinic_admin == {"clinic_admin"}
get_gcf_coordinator == {"gcf_coordinator"}
get_any_user == {"clinic_admin", "gcf_coordinator"}

\* the validator that trusts the payload without verifying the signature
JWTBearer_unverified(required_roles, token) ==
    IF token = NoToken THEN 403
    ELSE IF token.type /= "access" THEN 401
    ELSE IF required_roles /= {} /\ token.role \notin required_roles THEN 403
    ELSE 200

\* JWTBearer.__call__: the status the dependency answers with, 200 when it
\* returns the payload.  HTTPBearer answers 403 when the header is missing.
JWTBearer(required_roles, token) ==
    IF token = NoToken THEN 403
    ELSE IF ~token.signed THEN 401
    ELSE IF token.type /= "access" THEN 401
    ELSE IF required_roles /= {} /\ token.role \notin required_roles THEN 403
    ELSE 200

\* the routes of the four stage routers that are not "-internal", each with
\* the roles its dependency requires
RouteRoles ==
    [upload_document |-> get_clinic_admin,
     get_document_status |-> get_any_user,
     list_documents |-> get_any_user,
     delete_document |-> get_clinic_admin,
     parse_document |-> get_any_user,
     get_parsing_result |-> get_any_user,
     get_parsing_result_by_document |-> get_any_user,
     get_parsing_progress |-> get_any_user,
     structure_document |-> get_any_user,
     get_structuring_result |-> get_any_user,
     get_structuring_result_by_document |-> get_any_user,
     predict_risk |-> get_any_user,
     get_prediction_by_document |-> get_any_user,
     get_prediction |-> get_any_user,
     update_review_status |-> get_current_user]

PublicRoutes == DOMAIN RouteRoles

\* the "-internal" routes: no dependency but the database session
InternalRoutes ==
    {"update_processing_status_internal", "update_document_status_internal",
     "parse_document_internal", "delete_parsing_result_internal",
     "structure_document_internal", "predict_risk_internal",
     "delete_prediction_internal"}

\* the token passes the dependency of the route
Passes(route, token) == JWTBearer(RouteRoles[route], token) = 200

NoResponse == [route |-> "none", doc |-> NoDoc, token |-> NoToken, status |-> 0]

Answer(route, d, token, status) ==
    [route |-> route, doc |-> d, token |-> token, status |-> status]

\* the review route with its role check left out
ReviewForbidden_any_role(token) == FALSE

\* update_review_status: current_user.get("role") != "gcf_coordinator"
ReviewForbidden(token) == token.role /= "gcf_coordinator"

\* ------------------------------------------------------------ Init
Init ==
    /\ documents = [d \in Docs |-> NoDoc]
    /\ issued = {}
    /\ ledger = <<>>
    /\ files = [p \in Paths |-> IF p = LocalTxt THEN "t1" ELSE NoFile]
    /\ uploads = [d \in Docs |-> [pc |-> "idle", resp |-> "none"]]
    /\ delPending = {}
    /\ parsingDb = [rows |-> {}, next |-> 1]
    /\ parsedFiles = [d \in Docs |-> NoFile]
    /\ parseRuns = [r \in ParseRunIds |-> IdleParseRun]
    /\ structDb = [rows |-> {}, next |-> 1]
    /\ resultFiles = [d \in Docs |-> NoFile]
    /\ structRuns = [s \in StructRunIds |-> IdleStructRun]
    /\ predictCalls = [d \in Docs |-> 0]
    /\ predictions = [d \in Docs |-> NoPrediction]
    /\ bearer = NoToken
    /\ response = NoResponse

\* ------------------------------------------------- ingestion actions
\* DocumentService.upload_document up to the await of trigger_parsing_service
Upload(d, content) ==
    /\ d \notin issued
    /\ issued' = issued \cup {d}
    /\ files' = [files EXCEPT ![d] = content]
    /\ documents' = [documents EXCEPT ![d] = "uploaded"]
    /\ ledger' = add_processing_status(ledger, d, "document_ingestion",
                                       "completed", NoErr)
    /\ uploads' = [uploads EXCEPT ![d] = [pc |-> "trigger", resp |-> "none"]]
    /\ UNCHANGED <<predictionVars, delPending, parsingVars, structVars>>

\* the POST of trigger_parsing_service and, when it arrives, the
\* parse-internal route (routes/parsing.py 133-169)
UploadTrigger(d, reach) ==
    /\ uploads[d].pc = "trigger"
    /\ IF ~reach
       THEN /\ uploads' = [uploads EXCEPT ![d] = [pc |-> "respond", resp |-> "exc"]]
            /\ UNCHANGED parseRuns
       ELSE IF files[d] = NoFile
       THEN /\ uploads' = [uploads EXCEPT ![d] = [pc |-> "respond", resp |-> "404"]]
            /\ UNCHANGED parseRuns
       ELSE /\ \E r \in ParseRunIds :
                 /\ FreeParseRun(r)
                 /\ parseRuns' = [parseRuns EXCEPT ![r] =
                        [IdleParseRun EXCEPT !.pc = "queued", !.via = "internal",
                                             !.doc = d, !.path = d]]
            /\ uploads' = [uploads EXCEPT ![d] = [pc |-> "respond", resp |-> "200"]]
    /\ UNCHANGED <<predictionVars, documents, issued, ledger, files, delPending, parsingDb,
                   parsedFiles, structVars>>

\* trigger_parsing_service after the response (lines 210-237), then return
UploadRespond(d) ==
    /\ uploads[d].pc = "respond"
    /\ ledger' = IF TriggerRaises(uploads[d].resp = "200")
                 THEN ledger
                 ELSE IF uploads[d].resp = "200"
                 THEN add_processing_status(ledger, d, "document_parsing",
                                            "processing", NoErr)
                 ELSE add_processing_status(ledger, d, "document_parsing",
                                            "failed", uploads[d].resp)
    /\ uploads' = [uploads EXCEPT ![d].pc =
                      IF TriggerRaises(uploads[d].resp = "200")
                      THEN "raised" ELSE "done"]
    /\ UNCHANGED <<predictionVars, documents, issued, files, delPending, parsingVars, structVars>>

\* DocumentService.delete_document up to the delete-internal calls.  The two
\* unlink calls on absolute paths (lines 130, 135) name directories other than
\* PARSED_DIR and RESULTS_DIR and so remove nothing the stages wrote; the
\* structuring service has no delete-internal route, so only the call to the
\* parsing service has an effect.
DeleteDocument(d) ==
    /\ documents[d] /= NoDoc
    /\ ledger' = SelectSeq(ledger, LAMBDA e : e.document_id /= d)
    /\ files' = [files EXCEPT ![d] = NoFile]
    /\ documents' = [documents EXCEPT ![d] = NoDoc]
    /\ delPending' = delPending \cup {d}
    /\ UNCHANGED <<predictionVars, issued, uploads, parsingVars, structVars>>

\* delete_parsing_result_internal (routes/parsing.py 189-215), or the call
\* not arriving ("except: pass" in delete_document)
DeleteParsingInternal(d, reach) ==
    /\ d \in delPending
    /\ delPending' = delPending \ {d}
    /\ IF reach
       THEN /\ parsingDb' = Delete(parsingDb, d)
            /\ parsedFiles' = [parsedFiles EXCEPT ![d] = NoFile]
       ELSE UNCHANGED <<parsingDb, parsedFiles>>
    /\ UNCHANGED <<predictionVars, documents, issued, ledger, files, uploads, parseRuns, structVars>>

\* --------------------------------------------------- parsing actions
\* the calls the parsing process is in the middle of
ParseInFlight == {r \in ParseRunIds : parseRuns[r].pc \notin {"idle", "done", "raised", "abandoned"}}

\* the parsing process stops and starts again: the calls it was running
\* (awaited by a route or queued as BackgroundTasks, routes/parsing.py
\* 150-154) are gone, the database file stays; lifespan (main.py) creates the
\* tables and loads the converter, it resumes nothing
RestartParsing ==
    /\ ParseInFlight /= {}
    /\ parseRuns' = [r \in ParseRunIds |->
                        IF r \in ParseInFlight
                        THEN [parseRuns[r] EXCEPT !.pc = "abandoned"]
                        ELSE parseRuns[r]]
    /\ UNCHANGED <<predictionVars, ingestionVars, parsingDb, parsedFiles, structVars>>

\* a request reaches POST /parsing/parse
ParseRequest(d, p) ==
    /\ \E r \in ParseRunIds :
         /\ FreeParseRun(r)
         /\ parseRuns' = [parseRuns EXCEPT ![r] =
                [IdleParseRun EXCEPT !.pc = "queued", !.via = "parse",
                                     !.doc = d, !.path = p]]
    /\ UNCHANGED <<predictionVars, ingestionVars, parsingDb, parsedFiles, structVars>>

\* parse_document, the except block up to its first await (lines 151-183)
ParseFail(r, steps, err) ==
    LET d == parseRuns[r].doc
        failed == SaveFailed(ProgressSteps(parsingDb, d, steps), d, err)
    IN /\ parsingDb' = failed
       /\ parseRuns' = [parseRuns EXCEPT ![r].pc = "post_fail", ![r].err = err,
                            ![r].written = @ \o ProgressLog(parsingDb, d, steps)
                                             \o <<get_parsing_progress(failed, d)>>]
       /\ UNCHANGED parsedFiles

\* the save without the final upsert: the row stays at the last progress
\* update
ParseSaveUnfinished(r, steps, text) ==
    LET d == parseRuns[r].doc
        saved == ProgressSteps(parsingDb, d, steps \o <<92, 95>>)
    IN /\ parsingDb' = saved
       /\ parsedFiles' = [parsedFiles EXCEPT ![d] = text]
       /\ parseRuns' = [parseRuns EXCEPT ![r].pc = "post_ok", ![r].text = text,
                            ![r].ret = First(saved.rows, d).id,
                            ![r].written = @ \o ProgressLog(parsingDb, d,
                                                            steps \o <<92, 95>>)]

\* parse_document, lines 108-142: save the result and the parsed text
ParseSave(r, steps, text) ==
    LET d == parseRuns[r].doc
        saved == SaveCompleted(ProgressSteps(parsingDb, d, steps \o <<92, 95>>),
                               d, text)
    IN /\ parsingDb' = saved
       /\ parsedFiles' = [parsedFiles EXCEPT ![d] = text]
       /\ parseRuns' = [parseRuns EXCEPT ![r].pc = "post_ok", ![r].text = text,
                            ![r].ret = First(saved.rows, d).id,
                            ![r].written = @ \o ProgressLog(parsingDb, d,
                                                            steps \o <<92, 95>>)
                                             \o <<get_parsing_progress(saved, d)>>]

\* parse_document from its start to the first suspension: the whole
\* extraction for a .txt file, the hand-over to the executor otherwise
ParseStart(r, readOk) ==
    LET run == parseRuns[r] IN
    /\ run.pc = "queued"
    /\ IF files[run.path] = NoFile
       THEN ParseFail(r, <<>>, "File not found")
       ELSE IF file_extension(run.path) = ".txt"
       THEN IF readOk
            THEN ParseSave(r, <<5, 50, 90>>, files[run.path])
            ELSE ParseFail(r, <<5, 50>>, "read error")
       ELSE /\ readOk
            /\ parsingDb' = ProgressSteps(parsingDb, run.doc, <<5, 15, 30>>)
            /\ parseRuns' = [parseRuns EXCEPT ![r].pc = "converting",
                                 ![r].written = ProgressLog(parsingDb, run.doc,
                                                            <<5, 15, 30>>)]
            /\ UNCHANGED parsedFiles
    /\ UNCHANGED <<predictionVars, ingestionVars, structVars>>

\* parse_document after run_in_executor returns or raises (lines 93-142)
ParseConverted(r, convOk) ==
    LET run == parseRuns[r] IN
    /\ run.pc = "converting"
    /\ convOk => files[run.path] /= NoFile
    /\ IF convOk
       THEN ParseSave(r, <<75, 85>>, files[run.path])
       ELSE ParseFail(r, <<>>, "conversion error")
    /\ UNCHANGED <<predictionVars, ingestionVars, structVars>>

\* update_document_status, the POST to update-status-internal
\* (parsing_service.py 253-259, routes/documents.py 174-196)
ParsePost(r, reach) ==
    LET run == parseRuns[r]
        ok == run.pc = "post_ok"
    IN
    /\ run.pc \in {"post_ok", "post_fail"}
    /\ IF reach
       THEN /\ ledger' = add_processing_status(ledger, run.doc, "document_parsing",
                             IF ok THEN "completed" ELSE "failed", run.err)
            /\ parseRuns' = [parseRuns EXCEPT ![r].pc = IF ok THEN "patch_ok" ELSE "patch_fail"]
            /\ UNCHANGED parsingDb
       ELSE IF ReportRaises(reach) /\ ok
       THEN /\ parsingDb' = SaveFailed(parsingDb, run.doc, "report error")
            /\ parseRuns' = [parseRuns EXCEPT ![r].pc = "post_fail",
                                ![r].err = "report error", ![r].ret = 0]
            /\ UNCHANGED ledger
       ELSE /\ UNCHANGED <<ledger, parsingDb>>
            /\ parseRuns' = [parseRuns EXCEPT
                                ![r].pc = IF ok THEN "trigger" ELSE "raised"]
    /\ UNCHANGED <<predictionVars, documents, issued, files, uploads, delPending,
                   parsedFiles, structVars>>

\* update_document_status, the PATCH to status-internal
\* (parsing_service.py 262-268, routes/documents.py 198-218)
ParsePatch(r, reach) ==
    LET run == parseRuns[r]
        ok == run.pc = "patch_ok"
    IN
    /\ run.pc \in {"patch_ok", "patch_fail"}
    /\ IF reach
       THEN /\ documents' = update_document_status(documents, run.doc,
                                IF ok THEN "parsed" ELSE "uploaded")
            /\ parseRuns' = [parseRuns EXCEPT ![r].patched = TRUE,
                                ![r].pc = IF ok THEN "trigger" ELSE "raised"]
            /\ UNCHANGED parsingDb
       ELSE IF ReportRaises(reach) /\ ok
       THEN /\ parsingDb' = SaveFailed(parsingDb, run.doc, "report error")
            /\ parseRuns' = [parseRuns EXCEPT ![r].pc = "post_fail",
                                ![r].err = "report error", ![r].ret = 0]
            /\ UNCHANGED documents
       ELSE /\ UNCHANGED <<documents, parsingDb>>
            /\ parseRuns' = [parseRuns EXCEPT
                                ![r].pc = IF ok THEN "trigger" ELSE "raised"]
    /\ UNCHANGED <<predictionVars, issued, ledger, files, uploads, delPending,
                   parsedFiles, structVars>>

\* trigger_structuring_service and the return of parse_document
\* (lines 146-149, 273-301)
ParseTrigger(r, delivered) ==
    LET run == parseRuns[r] IN
    /\ run.pc = "trigger"
    /\ IF delivered
       THEN \E s \in StructRunIds :
              /\ FreeStructRun(s)
              /\ structRuns' = SpawnStruct(structRuns, s, run.doc, run.text)
       ELSE UNCHANGED structRuns
    /\ IF TriggerRaises(delivered)
       THEN /\ parsingDb' = SaveFailed(parsingDb, run.doc, "trigger error")
            /\ parseRuns' = [parseRuns EXCEPT ![r].pc = "post_fail",
                                ![r].err = "trigger error", ![r].sent = 1,
                                ![r].ret = 0]
       ELSE /\ UNCHANGED parsingDb
            /\ parseRuns' = [parseRuns EXCEPT ![r].pc = "done", ![r].sent = 1]
    /\ UNCHANGED <<predictionVars, ingestionVars, parsedFiles, structDb, resultFiles, predictCalls>>

\* ------------------------------------------------ structuring actions
\* a request reaches POST /structuring/structure or structure-internal from
\* outside the chain (a client, a duplicate or manual trigger)
StructRequest(d, text) ==
    /\ \E s \in StructRunIds :
         /\ FreeStructRun(s)
         /\ structRuns' = SpawnStruct(structRuns, s, d, text)
    /\ UNCHANGED <<predictionVars, ingestionVars, parsingVars, structDb, resultFiles, predictCalls>>

\* structure_document, lines 33-36: the read of the existing result, up to
\* the await of extract_structured_data
StructStart(s) ==
    LET run == structRuns[s] IN
    /\ run.pc = "queued"
    /\ structRuns' = [structRuns EXCEPT ![s].pc = "extracting",
                         ![s].existing = First(structDb.rows, run.doc).id]
    /\ UNCHANGED <<predictionVars, ingestionVars, parsingVars, structDb, resultFiles, predictCalls>>

\* structure_document after extract_structured_data returns, or after the
\* call raises before it has stored a result (outcome "raise"): lines 38-48
\* for an existing result, lines 50-72 otherwise
StructAnswered(s, outcome, answer) ==
    LET run == structRuns[s]
        d == run.doc
        extracted == extract_structured_data(run.text, outcome, answer)
        data == extracted.data
        inserted == Insert(structDb, StructRow(d, run.text, data,
                               calculate_confidence_score(data),
                               "completed", NoErr))
    IN
    /\ run.pc = "extracting"
    /\ IF outcome = "raise" \/ extracted.raised
       THEN /\ structRuns' = [structRuns EXCEPT ![s].pc = "post_fail",
                                 ![s].llm = outcome,
                                 ![s].err = "extraction error"]
            /\ UNCHANGED <<structDb, resultFiles>>
       ELSE IF run.existing /= 0
       THEN LET old == RowById(structDb.rows, run.existing) IN
            /\ structDb' = Update(structDb, old,
                              [old EXCEPT !.extracted_text = run.text,
                                          !.structured_data = data,
                                          !.status = "completed",
                                          !.error_message = NoErr])
            /\ structRuns' = [structRuns EXCEPT ![s].pc = "done",
                                 ![s].llm = outcome,
                                 ![s].data = data, ![s].ret = run.existing]
            /\ UNCHANGED resultFiles
       ELSE IF UniqueViolation(structDb.rows, d)
       THEN /\ structRuns' = [structRuns EXCEPT ![s].pc = "post_fail",
                                 ![s].llm = outcome,
                                 ![s].data = data, ![s].err = "IntegrityError"]
            /\ UNCHANGED <<structDb, resultFiles>>
       ELSE /\ structDb' = inserted
            /\ resultFiles' = [resultFiles EXCEPT ![d] = data]
            /\ structRuns' = [structRuns EXCEPT ![s].pc = "post_ok",
                                 ![s].llm = outcome,
                                 ![s].data = data, ![s].ret = structDb.next]
    /\ UNCHANGED <<predictionVars, ingestionVars, parsingVars, predictCalls>>

\* the same with an LLM that, when it answers, fills three of the fields
StructExtracted(s, outcome) == StructAnswered(s, outcome, DefaultAnswer)

\* update_document_status, the POST to update-status-internal
\* (structuring_service.py 358-364)
StructPost(s, reach) ==
    LET run == structRuns[s]
        ok == run.pc = "post_ok"
    IN
    /\ run.pc \in {"post_ok", "post_fail"}
    /\ IF reach
       THEN /\ ledger' = add_processing_status(ledger, run.doc,
                             "information_structuring",
                             IF ok THEN "completed" ELSE "failed", run.err)
            /\ structRuns' = [structRuns EXCEPT ![s].pc = IF ok THEN "patch_ok" ELSE "patch_fail"]
       ELSE IF ReportRaises(reach)
       THEN /\ UNCHANGED ledger
            /\ structRuns' = [structRuns EXCEPT
                                 ![s].pc = IF ok THEN "post_fail" ELSE "raised",
                                 ![s].err = IF ok THEN "report error" ELSE @,
                                 ![s].ret = 0]
       ELSE /\ UNCHANGED ledger
            /\ structRuns' = [structRuns EXCEPT
                                 ![s].pc = IF ok THEN "trigger" ELSE "write_fail"]
    /\ UNCHANGED <<predictionVars, documents, issued, files, uploads, delPending, parsingVars,
                   structDb, resultFiles, predictCalls>>

\* update_document_status, the PATCH to status-internal
\* (structuring_service.py 367-372)
StructPatch(s, reach) ==
    LET run == structRuns[s]
        ok == run.pc = "patch_ok"
    IN
    /\ run.pc \in {"patch_ok", "patch_fail"}
    /\ IF reach
       THEN /\ documents' = update_document_status(documents, run.doc,
                                IF ok THEN "structured" ELSE "parsed")
            /\ structRuns' = [structRuns EXCEPT ![s].patched = TRUE,
                                 ![s].pc = IF ok THEN "trigger" ELSE "write_fail"]
       ELSE IF ReportRaises(reach)
       THEN /\ UNCHANGED documents
            /\ structRuns' = [structRuns EXCEPT
                                 ![s].pc = IF ok THEN "post_fail" ELSE "raised",
                                 ![s].err = IF ok THEN "report error" ELSE @,
                                 ![s].ret = 0]
       ELSE /\ UNCHANGED documents
            /\ structRuns' = [structRuns EXCEPT
                                 ![s].pc = IF ok THEN "trigger" ELSE "write_fail"]
    /\ UNCHANGED <<predictionVars, issued, ledger, files, uploads, delPending, parsingVars,
                   structDb, resultFiles, predictCalls>>

\* structure_document, lines 93-104: the failed result is written after the
\* report to ingestion; the insert of a second row for the document raises
\* out of the except block
StructWriteFail(s) ==
    LET run == structRuns[s]
        d == run.doc
    IN
    /\ run.pc = "write_fail"
    /\ IF run.existing /= 0
       THEN LET old == RowById(structDb.rows, run.existing) IN
            /\ structDb' = Update(structDb, old,
                              [old EXCEPT !.status = "failed",
                                          !.error_message = run.err])
            /\ structRuns' = [structRuns EXCEPT ![s].pc = "done",
                                 ![s].ret = run.existing]
       ELSE IF UniqueViolation(structDb.rows, d)
       THEN /\ structRuns' = [structRuns EXCEPT ![s].pc = "raised", ![s].ret = 0]
            /\ UNCHANGED structDb
       ELSE /\ structDb' = Insert(structDb, StructRow(d, run.text, NoData, NoScore,
                                                     "failed", run.err))
            /\ structRuns' = [structRuns EXCEPT ![s].pc = "done",
                                 ![s].ret = structDb.next]
    /\ UNCHANGED <<predictionVars, ingestionVars, parsingVars, resultFiles, predictCalls>>

\* trigger_risk_prediction_service and the return of structure_document
\* (lines 74-77, 377-405)
StructTrigger(s, delivered) ==
    LET run == structRuns[s] IN
    /\ run.pc = "trigger"
    /\ predictCalls' =
         IF delivered
         THEN [predictCalls EXCEPT ![run.doc] = @ + 1]
         ELSE predictCalls
    /\ IF TriggerRaises(delivered)
       THEN structRuns' = [structRuns EXCEPT ![s].pc = "post_fail",
                              ![s].err = "trigger error", ![s].sent = 1]
       ELSE structRuns' = [structRuns EXCEPT ![s].pc = "done", ![s].sent = 1]
    /\ UNCHANGED <<predictionVars, ingestionVars, parsingVars, structDb, resultFiles>>

\* ------------------------------------------------ upload validation
\* names a client gives the uploaded file
Filenames == {"report.txt", "report.pdf"}

\* Path(filename).suffix.lower()
suffix(filename) == IF filename = "report.txt" THEN ".txt" ELSE ".pdf"

\* config.ALLOWED_EXTENSIONS
ALLOWED_EXTENSIONS == {".pdf", ".docx", ".png", ".jpg", ".jpeg", ".tiff", ".tif"}

\* validate_file_extension does not raise
validate_file_extension(filename) == suffix(filename) \in ALLOWED_EXTENSIONS

\* POST /documents/upload (routes/documents.py 22-74): validate_upload_file
\* answers 400 for a file type that is not allowed, before anything is
\* stored; otherwise DocumentService.upload_document runs
UploadFile(d, filename, content) ==
    /\ Passes("upload_document", bearer)
    /\ uploads[d].pc = "idle"
    /\ IF validate_file_extension(filename)
       THEN Upload(d, content)
       ELSE /\ uploads' = [uploads EXCEPT ![d] =
                   [pc |-> "rejected", resp |-> "400", filename |-> filename]]
            /\ UNCHANGED <<documents, issued, ledger, files, delPending,
                           parsingVars, structVars, predictionVars>>

\* ------------------------------------------------ prediction actions
\* the client changes the Authorization header it sends
Present(token) ==
    /\ bearer /= token
    /\ bearer' = token
    /\ UNCHANGED <<ingestionVars, parsingVars, structVars, predictions, response>>

\* a route whose dependency raises: the handler is not called
Reject(route) ==
    /\ ~Passes(route, bearer)
    /\ response' = Answer(route, NoDoc, bearer, JWTBearer(RouteRoles[route], bearer))
    /\ UNCHANGED <<ingestionVars, parsingVars, structVars, predictions, bearer>>

\* POST /documents/upload behind Depends(get_clinic_admin)
UploadRoute(d, content) ==
    /\ Passes("upload_document", bearer)
    /\ Upload(d, content)

\* DELETE /documents/{document_id} behind Depends(get_clinic_admin)
DeleteRoute(d) ==
    /\ Passes("delete_document", bearer)
    /\ DeleteDocument(d)

\* POST /predictions/predict behind Depends(get_any_user); the label is the
\* classifier's answer
PredictRisk(d, label) ==
    /\ Passes("predict_risk", bearer)
    /\ predictions' = generate_prediction(predictions, d, label)
    /\ response' = Answer("predict_risk", d, bearer, 200)
    /\ UNCHANGED <<ingestionVars, parsingVars, structVars, bearer>>

\* GET /predictions/document/{document_id} behind Depends(get_any_user)
GetPredictionByDocument(d) ==
    /\ Passes("get_prediction_by_document", bearer)
    /\ response' = Answer("get_prediction_by_document", d, bearer,
                          IF predictions[d] = NoPrediction THEN 404 ELSE 200)
    /\ UNCHANGED <<ingestionVars, parsingVars, structVars, predictions, bearer>>

\* POST /predictions/predict-internal: no token is read
PredictRiskInternal(d, label) ==
    /\ predictions' = generate_prediction(predictions, d, label)
    /\ response' = Answer("predict_risk_internal", d, bearer, 200)
    /\ UNCHANGED <<ingestionVars, parsingVars, structVars, bearer>>

\* DELETE /predictions/{document_id}/delete-internal: no token is read
DeletePredictionInternal(d) ==
    /\ predictions' = [predictions EXCEPT ![d] = NoPrediction]
    /\ response' = Answer("delete_prediction_internal", d, bearer, 200)
    /\ UNCHANGED <<ingestionVars, parsingVars, structVars, bearer>>

\* PATCH /predictions/document/{document_id}/review behind
\* Depends(get_current_user); reviewed_at is the time of the call
UpdateReviewStatus(d, review_status, coordinator_notes) ==
    /\ Passes("update_review_status", bearer)
    /\ IF ReviewForbidden(bearer)
       THEN /\ response' = Answer("update_review_status", d, bearer, 403)
            /\ UNCHANGED predictions
       ELSE IF predictions[d] = NoPrediction
       THEN /\ response' = Answer("update_review_status", d, bearer, 404)
            /\ UNCHANGED predictions
       ELSE /\ predictions' = [predictions EXCEPT
                                  ![d].review_status = review_status,
                                  ![d].coordinator_notes = coordinator_notes,
                                  ![d].reviewed_by = bearer.sub,
                                  ![d].reviewed_at = "utcnow"]
            /\ response' = Answer("update_review_status", d, bearer, 200)
    /\ UNCHANGED <<ingestionVars, parsingVars, structVars, bearer>>

\* ------------------------------------------------------------- Next
Next ==
    \/ \E d \in Docs, content \in UploadContents : Upload(d, content)
    \/ \E d \in Docs, reach \in BOOLEAN : UploadTrigger(d, reach)
    \/ \E d \in Docs : UploadRespond(d)
    \/ \E d \in Docs : DeleteDocument(d)
    \/ \E d \in Docs, reach \in BOOLEAN : DeleteParsingInternal(d, reach)
    \/ \E d \in Docs, p \in Paths : ParseRequest(d, p)
    \/ \E r \in ParseRunIds, readOk \in BOOLEAN : ParseStart(r, readOk)
    \/ \E r \in ParseRunIds, convOk \in BOOLEAN : ParseConverted(r, convOk)
    \/ \E r \in ParseRunIds, reach \in BOOLEAN : ParsePost(r, reach)
    \/ \E r \in ParseRunIds, reach \in BOOLEAN : ParsePatch(r, reach)
    \/ \E r \in ParseRunIds, delivered \in BOOLEAN : ParseTrigger(r, delivered)
    \/ \E d \in Docs, text \in StructTexts : StructRequest(d, text)
    \/ \E s \in StructRunIds : StructStart(s)
    \/ \E s \in StructRunIds, outcome \in {"no_key", "ok", "raise"} :
         StructExtracted(s, outcome)
    \/ \E s \in StructRunIds, reach \in BOOLEAN : StructPost(s, reach)
    \/ \E s \in StructRunIds, reach \in BOOLEAN : StructPatch(s, reach)
    \/ \E s \in StructRunIds : StructWriteFail(s)
    \/ \E s \in StructRunIds, delivered \in BOOLEAN : StructTrigger(s, delivered)

Spec == Init /\ [][Next]_vars

\* the stages alone: every report to the ingestion service fails (its
\* status endpoints are unreachable), which update_document_status swallows
NextResults ==
    \/ \E d \in Docs, content \in UploadContents : Upload(d, content)
    \/ \E d \in Docs, reach \in BOOLEAN : UploadTrigger(d, reach)
    \/ \E d \in Docs : UploadRespond(d)
    \/ \E d \in Docs : DeleteDocument(d)
    \/ \E d \in Docs, reach \in BOOLEAN : DeleteParsingInternal(d, reach)
    \/ \E d \in Docs, p \in Paths : ParseRequest(d, p)
    \/ \E r \in ParseRunIds, readOk \in BOOLEAN : ParseStart(r, readOk)
    \/ \E r \in ParseRunIds, convOk \in BOOLEAN : ParseConverted(r, convOk)
    \/ \E r \in ParseRunIds : ParsePost(r, FALSE)
    \/ \E r \in ParseRunIds, delivered \in BOOLEAN : ParseTrigger(r, delivered)
    \/ \E d \in Docs, text \in StructTexts : StructRequest(d, text)
    \/ \E s \in StructRunIds : StructStart(s)
    \/ \E s \in StructRunIds, outcome \in {"no_key", "ok", "raise"} :
         StructExtracted(s, outcome)
    \/ \E s \in StructRunIds : StructPost(s, FALSE)
    \/ \E s \in StructRunIds : StructWriteFail(s)
    \/ \E s \in StructRunIds, delivered \in BOOLEAN : StructTrigger(s, delivered)

SpecResults == Init /\ [][NextResults]_vars

\* the structuring stage with the ingestion service it reports to
NextStructuring ==
    \/ \E d \in Docs, content \in UploadContents : Upload(d, content)
    \/ \E d \in Docs, text \in StructTexts : StructRequest(d, text)
    \/ \E s \in StructRunIds : StructStart(s)
    \/ \E s \in StructRunIds, outcome \in {"no_key", "ok", "raise"} :
         StructExtracted(s, outcome)
    \/ \E s \in StructRunIds, reach \in BOOLEAN : StructPost(s, reach)
    \/ \E s \in StructRunIds, reach \in BOOLEAN : StructPatch(s, reach)
    \/ \E s \in StructRunIds : StructWriteFail(s)
    \/ \E s \in StructRunIds, delivered \in BOOLEAN : StructTrigger(s, delivered)

SpecStructuring == Init /\ [][NextStructuring]_vars

\* the writers of the status ledger: uploads whose trigger does not reach the
\* parsing service, parse_document calls on a local text file reporting to
\* the ingestion service, and delete_document
NextLedger ==
    \/ \E d \in Docs, content \in UploadContents : Upload(d, content)
    \/ \E d \in Docs : UploadTrigger(d, FALSE)
    \/ \E d \in Docs : UploadRespond(d)
    \/ \E d \in Docs : DeleteDocument(d)
    \/ \E d \in Docs : ParseRequest(d, LocalTxt)
    \/ \E r \in ParseRunIds, readOk \in BOOLEAN : ParseStart(r, readOk)
    \/ \E r \in ParseRunIds, reach \in BOOLEAN : ParsePost(r, reach)
    \/ \E r \in ParseRunIds, reach \in BOOLEAN : ParsePatch(r, reach)
    \/ \E r \in ParseRunIds : ParseTrigger(r, FALSE)

SpecLedger == Init /\ [][NextLedger]_vars

\* the two reporting stages in a chain: parse_document calls on a local text
\* file, the structure_document calls they trigger, and the ingestion
\* service both report to
NextReporting ==
    \/ \E d \in Docs, content \in UploadContents : Upload(d, content)
    \/ \E d \in Docs : ParseRequest(d, LocalTxt)
    \/ \E r \in ParseRunIds, readOk \in BOOLEAN : ParseStart(r, readOk)
    \/ \E r \in ParseRunIds, reach \in BOOLEAN : ParsePost(r, reach)
    \/ \E r \in ParseRunIds, reach \in BOOLEAN : ParsePatch(r, reach)
    \/ \E r \in ParseRunIds, delivered \in BOOLEAN : ParseTrigger(r, delivered)
    \/ \E s \in StructRunIds : StructStart(s)
    \/ \E s \in StructRunIds, outcome \in {"no_key", "raise"} :
         StructExtracted(s, outcome)
    \/ \E s \in StructRunIds, reach \in BOOLEAN : StructPost(s, reach)
    \/ \E s \in StructRunIds, reach \in BOOLEAN : StructPatch(s, reach)
    \/ \E s \in StructRunIds : StructWriteFail(s)
    \/ \E s \in StructRunIds, delivered \in BOOLEAN : StructTrigger(s, delivered)

SpecReporting == Init /\ [][NextReporting]_vars

\* the parsing stage with the uploads and deletions that reach it; the status
\* endpoints of the ingestion service and the structuring service are not
\* reachable from it
NextParsing ==
    \/ \E d \in Docs, content \in UploadContents : Upload(d, content)
    \/ \E d \in Docs, reach \in BOOLEAN : UploadTrigger(d, reach)
    \/ \E d \in Docs : UploadRespond(d)
    \/ \E d \in Docs : DeleteDocument(d)
    \/ \E d \in Docs, reach \in BOOLEAN : DeleteParsingInternal(d, reach)
    \/ \E d \in Docs, p \in Paths : ParseRequest(d, p)
    \/ \E r \in ParseRunIds, readOk \in BOOLEAN : ParseStart(r, readOk)
    \/ \E r \in ParseRunIds, convOk \in BOOLEAN : ParseConverted(r, convOk)
    \/ \E r \in ParseRunIds : ParsePost(r, FALSE)
    \/ \E r \in ParseRunIds : ParseTrigger(r, FALSE)

SpecParsing == Init /\ [][NextParsing]_vars

\* the parsing stage with process restarts; the ingestion and structuring
\* services are not reachable from it
NextPolling ==
    \/ \E d \in Docs, content \in UploadContents : Upload(d, content)
    \/ \E d \in Docs, reach \in BOOLEAN : UploadTrigger(d, reach)
    \/ \E d \in Docs : UploadRespond(d)
    \/ \E d \in Docs, p \in Paths : ParseRequest(d, p)
    \/ \E r \in ParseRunIds, readOk \in BOOLEAN : ParseStart(r, readOk)
    \/ \E r \in ParseRunIds, convOk \in BOOLEAN : ParseConverted(r, convOk)
    \/ \E r \in ParseRunIds : ParsePost(r, FALSE)
    \/ \E r \in ParseRunIds : ParseTrigger(r, FALSE)
    \/ RestartParsing

SpecPolling == Init /\ [][NextPolling]_vars

\* the structuring stage called by a client that waits for the answer before
\* it sends the next request, with every outcome of the LLM call
NextFallback ==
    \/ \E d \in Docs, content \in UploadContents : Upload(d, content)
    \/ \E d \in Docs, text \in Texts :
         /\ \A s \in StructRunIds : structRuns[s].pc \in {"idle", "done", "raised"}
         /\ StructRequest(d, text)
    \/ \E s \in StructRunIds : StructStart(s)
    \/ \E s \in StructRunIds, outcome \in LlmOutcomes : StructExtracted(s, outcome)
    \/ \E s \in StructRunIds, reach \in BOOLEAN : StructPost(s, reach)
    \/ \E s \in StructRunIds, reach \in BOOLEAN : StructPatch(s, reach)
    \/ \E s \in StructRunIds, delivered \in BOOLEAN : StructTrigger(s, delivered)

SpecFallback == Init /\ [][NextFallback]_vars

\* structure_document calls, one after the other, on LLM answers that fill
\* from none to all of the fields
NextConfidence ==
    \/ \E d \in Docs, text \in StructTexts :
         /\ \A s \in StructRunIds : structRuns[s].pc \in {"idle", "done", "raised"}
         /\ StructRequest(d, text)
    \/ \E s \in StructRunIds : StructStart(s)
    \/ \E s \in StructRunIds, answer \in LlmAnswers : StructAnswered(s, "ok", answer)
    \/ \E s \in StructRunIds : StructPost(s, FALSE)
    \/ \E s \in StructRunIds, delivered \in BOOLEAN : StructTrigger(s, delivered)

SpecConfidence == Init /\ [][NextConfidence]_vars

\* no upload_document, parse_document or structure_document call and no
\* delete-internal call is under way for the document
Quiescent(d) ==
    /\ uploads[d].pc \in {"idle", "done", "raised"}
    /\ d \notin delPending
    /\ \A r \in ParseRunIds :
         parseRuns[r].doc = d => parseRuns[r].pc \in {"idle", "done", "raised"}
    /\ \A s \in StructRunIds :
         structRuns[s].doc = d => structRuns[s].pc \in {"idle", "done", "raised"}

\* one upload through the pipeline, deleted by a client that waits until
\* nothing is in flight for the document; the parsing service is reachable
\* when delete_document calls it
NextCascade ==
    \/ \E d \in Docs, content \in UploadContents : Upload(d, content)
    \/ \E d \in Docs, reach \in BOOLEAN : UploadTrigger(d, reach)
    \/ \E d \in Docs : UploadRespond(d)
    \/ \E d \in Docs : Quiescent(d) /\ DeleteDocument(d)
    \/ \E d \in Docs : DeleteParsingInternal(d, TRUE)
    \/ \E r \in ParseRunIds, readOk \in BOOLEAN : ParseStart(r, readOk)
    \/ \E r \in ParseRunIds, convOk \in BOOLEAN : ParseConverted(r, convOk)
    \/ \E r \in ParseRunIds, reach \in BOOLEAN : ParsePost(r, reach)
    \/ \E r \in ParseRunIds, reach \in BOOLEAN : ParsePatch(r, reach)
    \/ \E r \in ParseRunIds, delivered \in BOOLEAN : ParseTrigger(r, delivered)
    \/ \E s \in StructRunIds : StructStart(s)
    \/ \E s \in StructRunIds, outcome \in {"no_key", "ok", "raise"} :
         StructExtracted(s, outcome)
    \/ \E s \in StructRunIds, reach \in BOOLEAN : StructPost(s, reach)
    \/ \E s \in StructRunIds, reach \in BOOLEAN : StructPatch(s, reach)
    \/ \E s \in StructRunIds : StructWriteFail(s)
    \/ \E s \in StructRunIds, delivered \in BOOLEAN : StructTrigger(s, delivered)

SpecCascade == Init /\ [][NextCascade]_vars

\* the routes of the ingestion and prediction services as clients and the
\* other services call them, with the parsing service out of reach of the
\* upload trigger
NextAccess ==
    \/ \E token \in Tokens : Present(token)
    \/ \E route \in PublicRoutes : Reject(route)
    \/ \E d \in Docs, content \in UploadContents : UploadRoute(d, content)
    \/ \E d \in Docs : UploadTrigger(d, FALSE)
    \/ \E d \in Docs : UploadRespond(d)
    \/ \E d \in Docs : DeleteRoute(d)
    \/ \E d \in Docs, reach \in BOOLEAN : DeleteParsingInternal(d, reach)
    \/ \E d \in Docs, label \in Labels : PredictRisk(d, label)
    \/ \E d \in Docs : GetPredictionByDocument(d)
    \/ \E d \in Docs, label \in Labels : PredictRiskInternal(d, label)
    \/ \E d \in Docs : DeletePredictionInternal(d)
    \/ \E d \in Docs, review_status \in ReviewStatuses,
          coordinator_notes \in ReviewNotes :
            UpdateReviewStatus(d, review_status, coordinator_notes)

SpecAccess == Init /\ [][NextAccess]_vars

\* one upload through the whole pipeline with every service reachable, the
\* stored file readable and the conversion succeeding
NextEndToEnd ==
    \/ \E token \in Tokens : Present(token)
    \/ \E d \in Docs, filename \in Filenames, content \in UploadContents :
         UploadFile(d, filename, content)
    \/ \E d \in Docs : UploadTrigger(d, TRUE)
    \/ \E d \in Docs : UploadRespond(d)
    \/ \E r \in ParseRunIds : ParseStart(r, TRUE)
    \/ \E r \in ParseRunIds : ParseConverted(r, TRUE)
    \/ \E r \in ParseRunIds : ParsePost(r, TRUE)
    \/ \E r \in ParseRunIds : ParsePatch(r, TRUE)
    \/ \E r \in ParseRunIds : ParseTrigger(r, TRUE)
    \/ \E s \in StructRunIds : StructStart(s)
    \/ \E s \in StructRunIds, outcome \in {"no_key", "ok"} :
         StructExtracted(s, outcome)
    \/ \E s \in StructRunIds : StructPost(s, TRUE)
    \/ \E s \in StructRunIds : StructPatch(s, TRUE)
    \/ \E s \in StructRunIds : StructTrigger(s, TRUE)

SpecEndToEnd == Init /\ [][NextEndToEnd]_vars

\* one upload with its parse_document run, and a client that deletes the
\* document once the upload call has answered, at any point of the run; the
\* parsing service is reachable when delete_document calls it
NextInFlight ==
    \/ \E d \in Docs, content \in UploadContents : Upload(d, content)
    \/ \E d \in Docs, reach \in BOOLEAN : UploadTrigger(d, reach)
    \/ \E d \in Docs : UploadRespond(d)
    \/ \E d \in Docs : uploads[d].pc = "done" /\ DeleteDocument(d)
    \/ \E d \in Docs : DeleteParsingInternal(d, TRUE)
    \/ \E r \in ParseRunIds, readOk \in BOOLEAN : ParseStart(r, readOk)
    \/ \E r \in ParseRunIds, convOk \in BOOLEAN : ParseConverted(r, convOk)
    \/ \E r \in ParseRunIds, reach \in BOOLEAN : ParsePost(r, reach)
    \/ \E r \in ParseRunIds, reach \in BOOLEAN : ParsePatch(r, reach)
    \/ \E r \in ParseRunIds : ParseTrigger(r, FALSE)

SpecInFlight == Init /\ [][NextInFlight]_vars

\* ===================================================================
\* Properties
\* ===================================================================
StructFailing == {"post_fail", "patch_fail", "write_fail"}

\* C1: in every reachable state each result table (ParsingResult,
\* StructuringResult) holds at most one row per document id.
C1_AtMostOneResult ==
    \A d \in Docs :
        /\ Cardinality(RowsOf(parsingDb.rows, d)) <= 1
        /\ Cardinality(RowsOf(structDb.rows, d)) <= 1

\* two overlapping structure_document runs both read "no result" and both
\* tried to insert: one row is stored, the other insert was rejected
C1_Witness ==
    \E s \in StructRunIds :
        /\ structRuns[s].err = "IntegrityError"
        /\ Cardinality(RowsOf(structDb.rows, structRuns[s].doc)) = 1

\* two structure_document runs for the same document and text that both read
\* "no existing result"
Overlapping(s, t) ==
    /\ s /= t
    /\ structRuns[s].pc \notin {"idle", "queued"}
    /\ structRuns[t].pc \notin {"idle", "queued"}
    /\ structRuns[s].doc = structRuns[t].doc
    /\ structRuns[s].text = structRuns[t].text
    /\ structRuns[s].existing = 0
    /\ structRuns[t].existing = 0
    /\ structRuns[s].err /= "extraction error"
    /\ structRuns[t].err /= "extraction error"

\* C2: when two structure_document calls for the same document and text
\* overlap and the extraction succeeds in both, neither call ends in an error
\* response, no failed status is reported to ingestion, and once both have
\* finished the single result is completed.
C2_DuplicatesConverge ==
    \A s, t \in StructRunIds :
        Overlapping(s, t) =>
            /\ structRuns[s].pc /= "raised"
            /\ structRuns[s].pc \notin StructFailing
            /\ \A i \in 1..Len(ledger) :
                 ~ (/\ ledger[i].document_id = structRuns[s].doc
                    /\ ledger[i].service_name = "information_structuring"
                    /\ ledger[i].status = "failed")
            /\ (structRuns[s].pc = "done" /\ structRuns[t].pc = "done") =>
                 First(structDb.rows, structRuns[s].doc).status = "completed"

\* C3: a submit that succeeds leaves exactly one result row for its document,
\* and that row holds this call's output with status completed; so after two
\* calls in a row the row is the one written by the second call.
C3_UpsertStep ==
    /\ \A r \in ParseRunIds :
         (parseRuns[r].pc /= "post_ok" /\ parseRuns'[r].pc = "post_ok") =>
            LET rows == RowsOf(parsingDb'.rows, parseRuns'[r].doc) IN
            /\ Cardinality(rows) = 1
            /\ \A row \in rows :
                 /\ row.id = parseRuns'[r].ret
                 /\ row.extracted_text = files[parseRuns[r].path]
                 /\ row.status = "completed"
                 /\ row.progress = 100
    /\ \A s \in StructRunIds :
         (/\ structRuns[s].pc = "extracting"
          /\ structRuns'[s].pc \in {"post_ok", "done"}) =>
            LET rows == RowsOf(structDb'.rows, structRuns'[s].doc) IN
            /\ Cardinality(rows) = 1
            /\ \A row \in rows :
                 /\ row.id = structRuns'[s].ret
                 /\ row.extracted_text = structRuns[s].text
                 /\ row.structured_data = structRuns'[s].data
                 /\ row.status = "completed"

C3_IdempotentUpsert == [][C3_UpsertStep]_vars

\* parse_document has been called twice for the same document and file, the
\* second call after the first had stored its result, and both succeeded
C3_Witness ==
    \E r, q \in ParseRunIds :
        /\ r /= q
        /\ parseRuns[r].pc = "done"
        /\ parseRuns[q].pc = "done"
        /\ parseRuns[r].doc = parseRuns[q].doc
        /\ parseRuns[r].path = parseRuns[q].path
        /\ parseRuns[r].ret = parseRuns[q].ret
        /\ Cardinality(RowsOf(parsingDb.rows, parseRuns[r].doc)) = 1

\* the errors a stage's own transformation raises once the input was accepted
TransformationErrors == {"read error", "conversion error", "extraction error"}

\* C4: when the transformation raises, submit returns the persisted failed
\* row to its caller instead of raising (parse_document and
\* structure_document).
C4_FailureReturned ==
    /\ \A r \in ParseRunIds :
         parseRuns[r].err \in TransformationErrors =>
            parseRuns[r].pc /= "raised"
    /\ \A s \in StructRunIds :
         structRuns[s].err \in TransformationErrors =>
            structRuns[s].pc /= "raised"

\* C5: when a stage's transformation fails and its status report reaches the
\* ingestion service, the Document's status becomes failed.
C5_FailStep ==
    /\ \A r \in ParseRunIds :
         (/\ parseRuns[r].pc = "patch_fail"
          /\ parseRuns[r].err \in TransformationErrors
          /\ parseRuns'[r].patched
          /\ documents[parseRuns[r].doc] /= NoDoc) =>
            documents'[parseRuns[r].doc] = "failed"
    /\ \A s \in StructRunIds :
         (/\ structRuns[s].pc = "patch_fail"
          /\ structRuns[s].err \in TransformationErrors
          /\ structRuns'[s].patched
          /\ documents[structRuns[s].doc] /= NoDoc) =>
            documents'[structRuns[s].doc] = "failed"

C5_FailureReachesDocument == [][C5_FailStep]_vars

\* C6: whatever happens to the call that triggers the next stage, the step
\* ends the triggering call normally and leaves the stage's stored results
\* (and, for the upload, the Document statuses) as they were.
C6_TriggerStep ==
    /\ \A r \in ParseRunIds :
         (parseRuns[r].pc = "trigger" /\ parseRuns'[r].pc /= "trigger") =>
            /\ parseRuns'[r].pc = "done"
            /\ parseRuns'[r].ret = parseRuns[r].ret
            /\ parsingDb' = parsingDb
    /\ \A s \in StructRunIds :
         (structRuns[s].pc = "trigger" /\ structRuns'[s].pc /= "trigger") =>
            /\ structRuns'[s].pc = "done"
            /\ structRuns'[s].ret = structRuns[s].ret
            /\ structDb' = structDb
    /\ \A d \in Docs :
         (uploads[d].pc = "respond" /\ uploads'[d].pc /= "respond") =>
            /\ uploads'[d].pc = "done"
            /\ documents' = documents

C6_PropagationIsolation == [][C6_TriggerStep]_vars

\* a parse_document call has returned its completed result although its
\* trigger did not reach the structuring service, and an upload has returned
\* although the parsing service could not be reached
C6_Witness ==
    \E r \in ParseRunIds, d \in Docs :
        /\ parseRuns[r].pc = "done"
        /\ \A s \in StructRunIds : structRuns[s].pc = "idle"
        /\ First(parsingDb.rows, parseRuns[r].doc).status = "completed"
        /\ uploads[d].pc = "done"
        /\ uploads[d].resp = "exc"
        /\ documents[d] = "uploaded"

\* C7: every submit that ended completed has sent exactly one trigger to the
\* next stage.
C7_CompletedTriggersOnce ==
    /\ \A r \in ParseRunIds :
         parseRuns[r].pc = "done" => parseRuns[r].sent = 1
    /\ \A s \in StructRunIds :
         (structRuns[s].pc = "done" /\ structRuns[s].err = NoErr) =>
            structRuns[s].sent = 1

\* position of a Document status along uploaded < parsed < structured < predicted
StageRank(st) ==
    CASE st = "uploaded" -> 1
      [] st = "parsed" -> 2
      [] st = "structured" -> 3
      [] st = "predicted" -> 4
      [] OTHER -> 0

\* C8: a Document's status never moves back to an earlier stage than one it
\* has reached.
C8_StatusStep ==
    \A d \in Docs :
        (StageRank(documents[d]) > 0 /\ StageRank(documents'[d]) > 0) =>
            StageRank(documents'[d]) >= StageRank(documents[d])

C8_StatusMonotone == [][C8_StatusStep]_vars

\* status of a document's result row, "absent" without a row
RowStatus(rows, d) ==
    IF RowsOf(rows, d) = {} THEN "absent" ELSE First(rows, d).status

\* pending -> processing -> {completed, failed}, and back to processing on a
\* new submit
LegalStatusMove(old, new) ==
    \/ new = old
    \/ new = "absent"
    \/ new = "processing"
    \/ old = "processing" /\ new \in {"completed", "failed"}

\* C9: a result row reaches completed or failed only from processing; no row
\* is created in, or overwritten with, a final state without passing through
\* processing.
C9_StatusStep ==
    \A d \in Docs :
        /\ LegalStatusMove(RowStatus(parsingDb.rows, d), RowStatus(parsingDb'.rows, d))
        /\ LegalStatusMove(RowStatus(structDb.rows, d), RowStatus(structDb'.rows, d))

C9_StateMachine == [][C9_StatusStep]_vars

\* C10: a parse_document call whose file does not exist changes neither the
\* ParsingResult table, nor a Document status, nor the ProcessingStatus
\* ledger.
C10_MissingFileStep ==
    \A r \in ParseRunIds :
        (/\ parseRuns'[r] /= parseRuns[r]
         /\ parseRuns'[r].err = "File not found") =>
            /\ parsingDb' = parsingDb
            /\ documents' = documents
            /\ ledger' = ledger

C10_ValidationLeavesNoTrace == [][C10_MissingFileStep]_vars

\* C11: a parse request whose file does not exist is answered 404: on
\* /parsing/parse the call takes the failure path with "File not found" and
\* the route answers 404 once it has raised; on parse-internal the answer is
\* 404 and no background task is queued.
C11_ParseStep ==
    /\ \A r \in ParseRunIds :
         (/\ parseRuns[r].pc = "queued"
          /\ parseRuns'[r].pc /= "queued"
          /\ parseRuns[r].via = "parse"
          /\ files[parseRuns[r].path] = NoFile) =>
            /\ parseRuns'[r].err = "File not found"
            /\ parseRuns'[r].pc \in {"post_fail", "patch_fail", "raised"}
    /\ \A r \in ParseRunIds :
         (/\ parseRuns'[r].via = "parse"
          /\ parseRuns'[r].err = "File not found") =>
            /\ parseRuns'[r].pc \in {"post_fail", "patch_fail", "raised"}
            /\ ParseResponse(parseRuns'[r]) \in {"none", "404"}
            /\ parseRuns'[r].pc = "raised" => ParseResponse(parseRuns'[r]) = "404"
    /\ \A d \in Docs :
         (/\ uploads[d].pc = "trigger"
          /\ uploads'[d].resp \in {"200", "404"}
          /\ files[d] = NoFile) =>
            /\ uploads'[d].resp = "404"
            /\ parseRuns' = parseRuns

C11_MissingFileIs404 == [][C11_ParseStep]_vars

\* /parsing/parse has answered 404 for a missing file, and parse-internal has
\* answered 404 to the upload whose file was deleted before the trigger
C11_Witness ==
    \E r \in ParseRunIds, d \in Docs :
        /\ parseRuns[r].via = "parse"
        /\ parseRuns[r].pc = "raised"
        /\ ParseResponse(parseRuns[r]) = "404"
        /\ parsingDb.rows /= {}
        /\ uploads[d].resp = "404"
        /\ \A q \in ParseRunIds : parseRuns[q].via /= "internal"

\* the parse_document calls that got past saving their result
ParseSucceeded == {"post_ok", "patch_ok", "trigger", "done"}

\* C12: the progress values one parse_document call writes are strictly
\* increasing as long as it has not failed, every value below 100 is written
\* with status processing, a call that succeeded wrote 100 last and with
\* status completed, and a row with status completed has progress 100.
C12_ProgressMonotone ==
    /\ \A r \in ParseRunIds :
         LET w == parseRuns[r].written IN
         /\ parseRuns[r].err = NoErr =>
               /\ \A i \in 1..Len(w) - 1 : w[i].progress < w[i + 1].progress
               /\ \A i \in 1..Len(w) :
                     /\ w[i].progress < 100 => w[i].status = "processing"
                     /\ w[i].progress = 100 <=> w[i].status = "completed"
         /\ parseRuns[r].pc \in ParseSucceeded =>
               /\ Len(w) >= 2
               /\ w[Len(w)] = [status |-> "completed", progress |-> 100]
               /\ \A i \in 1..Len(w) - 1 : w[i].progress < 100
    /\ \A row \in parsingDb.rows :
         row.status = "completed" => row.progress = 100

\* a second parse_document call on a document whose row was already completed
\* has gone through the conversion and succeeded
C12_Witness ==
    \E r, q \in ParseRunIds :
        /\ r /= q
        /\ parseRuns[r].doc = parseRuns[q].doc
        /\ parseRuns[q].pc = "done"
        /\ parseRuns[r].pc \in ParseSucceeded
        /\ file_extension(parseRuns[r].path) = ".pdf"
        /\ Len(parseRuns[r].written) = 8
        /\ parseRuns[r].written[1].progress = 5
        /\ parseRuns[q].written[Len(parseRuns[q].written)].progress = 100

\* the ledger entries of a document, in insertion order
EntriesOf(l, d) == SelectSeq(l, LAMBDA e : e.document_id = d)

\* C13: a step either leaves the ProcessingStatus rows of a document as they
\* are, or adds exactly one row after them, or (delete_document removing the
\* Document) removes all of them.
C13_LedgerStep ==
    \A d \in Docs :
        LET old == EntriesOf(ledger, d)
            new == EntriesOf(ledger', d)
        IN \/ new = old
           \/ Len(new) = Len(old) + 1 /\ SubSeq(new, 1, Len(old)) = old
           \/ /\ new = <<>>
              /\ documents[d] /= NoDoc
              /\ documents'[d] = NoDoc

C13_AppendOnly == [][C13_LedgerStep]_vars

\* the parsing stage has reported twice for the same document, and both
\* reports are in the ledger after the entries of the upload
C13_Witness ==
    \E d \in Docs :
        LET l == EntriesOf(ledger, d) IN
        /\ Len(l) >= 4
        /\ l[1].service_name = "document_ingestion"
        /\ Cardinality({i \in 1..Len(l) : l[i].service_name = "document_parsing"
                                            /\ l[i].status = "completed"}) >= 2

\* the positions of a call inside update_document_status
Reporting == {"post_ok", "patch_ok", "post_fail", "patch_fail"}

\* C14: whatever happens to a status report (delivered, unreachable, answered
\* with an error), the step leaves the stage's result table, the call's
\* outcome and its return value as they were and moves the call on in the
\* same direction: a successful call goes on to trigger the next stage, a
\* failed call stays failed.
C14_ReportStep ==
    /\ \A r \in ParseRunIds :
         LET old == parseRuns[r]
             new == parseRuns'[r]
         IN (old.pc \in Reporting /\ new /= old) =>
              /\ parsingDb' = parsingDb
              /\ new.err = old.err
              /\ new.ret = old.ret
              /\ old.pc \in {"post_ok", "patch_ok"} =>
                    new.pc \in {"patch_ok", "trigger"}
              /\ old.pc \in {"post_fail", "patch_fail"} =>
                    new.pc \in {"patch_fail", "raised"}
    /\ \A s \in StructRunIds :
         LET old == structRuns[s]
             new == structRuns'[s]
         IN (old.pc \in Reporting /\ new /= old) =>
              /\ structDb' = structDb
              /\ new.err = old.err
              /\ new.ret = old.ret
              /\ old.pc \in {"post_ok", "patch_ok"} =>
                    new.pc \in {"patch_ok", "trigger"}
              /\ old.pc \in {"post_fail", "patch_fail"} =>
                    new.pc \in {"patch_fail", "write_fail"}
    /\ \A r \in ParseRunIds :
         (parseRuns[r].pc = "trigger" /\ parseRuns'[r] /= parseRuns[r]) =>
            parseRuns'[r].pc = "done" /\ parseRuns'[r].sent = 1
    /\ \A s \in StructRunIds :
         (structRuns[s].pc = "trigger" /\ structRuns'[s] /= structRuns[s]) =>
            structRuns'[s].pc = "done" /\ structRuns'[s].sent = 1

C14_BestEffortReport == [][C14_ReportStep]_vars

\* with the ingestion service unreachable throughout, a parse_document call
\* has completed and triggered structuring, and the structure_document call
\* it started has completed and sent its trigger
C14_Witness ==
    \E r \in ParseRunIds, s \in StructRunIds :
        /\ ledger = <<>>
        /\ parseRuns[r].pc = "done"
        /\ ~parseRuns[r].patched
        /\ First(parsingDb.rows, parseRuns[r].doc).status = "completed"
        /\ structRuns[s].pc = "done"
        /\ structRuns[s].sent = 1
        /\ ~structRuns[s].patched
        /\ First(structDb.rows, structRuns[s].doc).status = "completed"

\* C15: once delete_document has finished for a document that had nothing in
\* flight, with its delete-internal call answered, no ProcessingStatus row,
\* no ParsingResult and no StructuringResult of the document remains and its
\* stored file is gone.  (The Prediction table, which delete_document never
\* addresses, is left out of the formula.)
C15_DeletionCascade ==
    \A d \in Docs :
        (d \in issued /\ documents[d] = NoDoc /\ Quiescent(d)) =>
            /\ EntriesOf(ledger, d) = <<>>
            /\ files[d] = NoFile
            /\ RowsOf(parsingDb.rows, d) = {}
            /\ parsedFiles[d] = NoFile
            /\ RowsOf(structDb.rows, d) = {}

\* C16: when a parse-internal request was acknowledged with "processing" and
\* no parse_document call is left that could still write the document's row
\* (every call has returned, raised or was lost in a restart), a client
\* polling the progress endpoint is not left reading "processing": a call
\* that started has its row read as completed or failed.
C16_TerminalStatusSeen ==
    \A r \in ParseRunIds :
        (/\ parseRuns[r].via = "internal"
         /\ parseRuns[r].written /= <<>>
         /\ \A q \in ParseRunIds :
               parseRuns[q].doc = parseRuns[r].doc => q \notin ParseInFlight) =>
            get_parsing_progress(parsingDb, parseRuns[r].doc).status
                \in {"completed", "failed"}

\* the ledger explains that a stage was not started for the document
ExplainsFailure(l, d, service) ==
    \E i \in 1..Len(l) :
        /\ l[i].document_id = d
        /\ l[i].service_name = service
        /\ l[i].status = "failed"
        /\ l[i].error_message /= NoErr

\* C17: when a stage finishes without having started the next one (its
\* trigger was not delivered or not accepted), the ledger holds a failed
\* entry with an error text for the stage that was not started:
\* ingestion -> parsing, parsing -> structuring, structuring -> prediction.
\* For the two later stages the case taken is the one where the ingestion
\* service had just answered the stage's own status report.
C17_StuckStep ==
    /\ \A d \in Docs :
         (/\ uploads[d].pc = "respond"
          /\ uploads'[d].pc = "done"
          /\ uploads[d].resp /= "200") =>
            ExplainsFailure(ledger', d, "document_parsing")
    /\ \A r \in ParseRunIds :
         (/\ parseRuns[r].pc = "trigger"
          /\ parseRuns'[r].pc = "done"
          /\ parseRuns[r].patched
          /\ structRuns' = structRuns) =>
            ExplainsFailure(ledger', parseRuns[r].doc, "information_structuring")
    /\ \A s \in StructRunIds :
         (/\ structRuns[s].pc = "trigger"
          /\ structRuns'[s].pc = "done"
          /\ structRuns[s].patched
          /\ predictCalls' = predictCalls) =>
            ExplainsFailure(ledger', structRuns[s].doc, "risk_prediction")

C17_StuckIsExplained == [][C17_StuckStep]_vars

\* C18: once the transformation of a call that came in by a trigger route
\* has begun, its caller has already been answered "processing"
\* (parse-internal for parse_document, structure-internal for
\* structure_document).
C18_AcknowledgedFirst ==
    /\ \A r \in ParseRunIds :
         (parseRuns[r].via = "internal" /\ parseRuns[r].pc \notin {"idle", "queued"}) =>
            ParseResponse(parseRuns[r]) = "processing"
    /\ \A s \in StructRunIds :
         structRuns[s].pc \notin {"idle", "queued"} =>
            StructResponse(structRuns[s]) = "processing"

\* C19: whatever the LLM call comes to, a structure_document call does not
\* fail: when the answer is not usable the data is the rule-based
\* extractor's result for the text, the call ends completed (its row and its
\* answer), and without an API key a text with "BI-RADS 2" gets a
\* birads_score other than "unknown".
C19_FallbackNeverFails ==
    \A s \in StructRunIds :
        LET run == structRuns[s] IN
        run.pc \notin {"idle", "queued", "extracting"} =>
            /\ run.llm \in LlmOutcomes
            /\ run.llm /= "ok" => run.data = create_mock_structured_data(run.text)
            /\ run.err = NoErr
            /\ run.pc \in {"post_ok", "patch_ok", "trigger", "done"}
            /\ RowStatus(structDb.rows, run.doc) = "completed"
            /\ run.pc = "done" => StructResponse(run) = "completed"
            /\ (run.llm = "no_key" /\ {"bi-rads", "2"} \subseteq Keywords(run.text)) =>
                  run.data["birads_score"] = "2"

\* one structure_document call without an API key on a text with "BI-RADS 2"
\* and one whose LLM call raised have both ended completed
C19_Witness ==
    \E s, t \in StructRunIds :
        /\ structRuns[s].pc = "done"
        /\ structRuns[s].llm = "no_key"
        /\ structRuns[s].text = "t1"
        /\ structRuns[s].data["birads_score"] = "2"
        /\ structRuns[t].pc = "done"
        /\ structRuns[t].llm = "exception"
        /\ RowStatus(structDb.rows, structRuns[t].doc) = "completed"

\* the number of fields of a StructuredData equal to "unknown"
UnknownCount(data) == Cardinality({f \in DOMAIN data : data[f] = "unknown"})

\* C20: the confidence stored with a new result is (N - K) / N for the N
\* fields of its StructuredData of which K are "unknown", for every K from 0
\* to N, and lies between 0 and 1 (scores are in hundredths; the function
\* reads nothing but its argument).
C20_ConfidenceFormula ==
    \A s \in StructRunIds :
        LET run == structRuns[s]
            N == Cardinality(Fields)
        IN (run.existing = 0 /\ run.ret /= 0) =>
             LET score == RowById(structDb.rows, run.ret).confidence_score IN
             /\ DOMAIN run.data = Fields
             /\ score * N = (N - UnknownCount(run.data)) * 100
             /\ 0 <= score
             /\ score <= 100

\* a result has been stored for an answer with 13 of the 20 fields known
C20_Witness ==
    \E s \in StructRunIds :
        /\ structRuns[s].existing = 0
        /\ structRuns[s].pc = "done"
        /\ UnknownCount(structRuns[s].data) = 7
        /\ RowById(structDb.rows, structRuns[s].ret).confidence_score = 65

\* C21: the risk lookup table is a total function on the class labels: the
\* label of every stored Prediction is listed in exactly one bucket of
\* RISK_THRESHOLDS, {4,5,6} in high, {3} in medium, {1,2} in low and {0} in
\* needs_assessment, and that bucket is the stored risk level.
C21_RiskTableTotal ==
    \A d \in Docs :
        predictions[d] /= NoPrediction =>
            LET label == predictions[d].predicted_label_id
                bucket == IF label \in {4, 5, 6} THEN "high"
                          ELSE IF label = 3 THEN "medium"
                          ELSE IF label \in {1, 2} THEN "low"
                          ELSE "needs_assessment"
            IN /\ label \in Labels
               /\ BucketsOf(label) = {bucket}
               /\ predictions[d].risk_level = bucket

\* a prediction for BI-RADS 3 is stored
C21_Witness ==
    \E d \in Docs :
        /\ predictions[d] /= NoPrediction
        /\ predictions[d].predicted_label_id = 3

\* the caller of the last answered route held a signed access token of a
\* coordinator
SignedAccess(token) == token.signed /\ token.type = "access"

\* C22: the review overlay of a Prediction (review_status, coordinator_notes,
\* reviewed_by, reviewed_at) changes only in a call of update_review_status
\* that presents the access token of a gcf_coordinator, and reviewed_by is
\* then the sub of that token; the call answers 403 to any other role and 404
\* when the document has no prediction, and then no Prediction changes.
C22_ReviewStep ==
    /\ \A d \in Docs :
          ( /\ predictions[d] /= NoPrediction
            /\ predictions'[d] /= NoPrediction
            /\ Overlay(predictions'[d]) /= Overlay(predictions[d]) ) =>
               /\ response' = Answer("update_review_status", d, bearer, 200)
               /\ SignedAccess(bearer)
               /\ bearer.role = "gcf_coordinator"
               /\ predictions'[d].reviewed_by = bearer.sub
    /\ response'.route = "update_review_status" =>
          /\ ( SignedAccess(response'.token)
               /\ response'.token.role /= "gcf_coordinator" ) =>
                  response'.status = 403
          /\ ( SignedAccess(response'.token)
               /\ response'.token.role = "gcf_coordinator"
               /\ predictions[response'.doc] = NoPrediction ) =>
                  response'.status = 404
          /\ response'.status /= 200 => predictions' = predictions

C22_ReviewOnlyByCoordinator == [][C22_ReviewStep]_vars

\* a coordinator has reviewed a prediction and a clinic admin's call for it
\* was answered 403 afterwards
C22_Witness ==
    \E d \in Docs :
        /\ predictions[d] /= NoPrediction
        /\ predictions[d].reviewed_by = "u2"
        /\ response.route = "update_review_status"
        /\ response.token.role = "clinic_admin"
        /\ response.status = 403

\* the roles a route of the stage routers admits
AllowedRoles(route) ==
    IF route = "update_review_status" THEN {"gcf_coordinator"}
    ELSE IF route \in {"upload_document", "delete_document"} THEN {"clinic_admin"}
    ELSE {"clinic_admin", "gcf_coordinator"}

Authorized(route, token) ==
    SignedAccess(token) /\ token.role \in AllowedRoles(route)

\* C23: a route of the stage routers that is not "-internal" runs its handler
\* only for a bearer token with a valid signature, type access and a role the
\* route admits (upload and delete: clinic_admin only); a token that is not a
\* signed access token is answered 401 and a wrong role 403, without any
\* change of state; the "-internal" routes run whatever the caller presents.
C23_AccessStep ==
    /\ issued' /= issued => Authorized("upload_document", bearer)
    /\ (\E d \in Docs : documents[d] /= NoDoc /\ documents'[d] = NoDoc) =>
          Authorized("delete_document", bearer)
    /\ predictions' /= predictions =>
          \/ response'.route \in InternalRoutes
          \/ /\ response'.route \in PublicRoutes
             /\ Authorized(response'.route, response'.token)
    /\ response'.route \in PublicRoutes =>
          /\ response'.token = bearer \/ response' = response
          /\ response'.status \notin {401, 403} =>
                Authorized(response'.route, response'.token)
          /\ ( response'.token /= NoToken /\ ~SignedAccess(response'.token) ) =>
                response'.status = 401
          /\ ( SignedAccess(response'.token)
               /\ ~Authorized(response'.route, response'.token) ) =>
                response'.status = 403
          /\ ( response' /= response /\ response'.status \in {401, 403} ) =>
                UNCHANGED <<ingestionVars, parsingVars, structVars, predictions>>

C24_EndToEnd ==
    \A d \in Docs :
        uploads[d].pc = "rejected" => suffix(uploads[d].filename) /= ".txt"

\* C25: in every reachable state each ProcessingStatus row refers to a
\* Document that exists; a status report that reaches update-status-internal
\* after the document was deleted adds no row.
C25_LedgerRefersToDocument ==
    \A i \in DOMAIN ledger : documents[ledger[i].document_id] /= NoDoc

\* C26: deletion is final for the parsing stage: when delete_document and its
\* delete-internal call ran while a parse_document run for the document was in
\* flight, then once that run has finished the document has no ParsingResult
\* row and no parsed text file.
C26_DeletionFinal ==
    \A d \in Docs :
        ( /\ d \in issued
          /\ documents[d] = NoDoc
          /\ d \notin delPending
          /\ \A r \in ParseRunIds :
               parseRuns[r].doc = d => parseRuns[r].pc \in {"done", "raised"} ) =>
            /\ RowsOf(parsingDb.rows, d) = {}
            /\ parsedFiles[d] = NoFile

\* C27: in every reachable state a ParsingResult row has a non-null
\* error_message only if its status is failed; a retry that moves a failed
\* row back to processing clears the error of the earlier attempt, so the
\* progress endpoint never answers "processing" with an old error text.
C27_ErrorOnlyWhenFailed ==
    \A row \in parsingDb.rows :
        row.error_message /= NoErr => row.status = "failed"

\* C28: for every StructuringResult with status completed the stored
\* confidence_score is calculate_confidence_score of the structured_data
\* stored in the same row, after a first submit and after any resubmission
\* for the same document.
C28_ConfidenceMatchesData ==
    \A row \in structDb.rows :
        row.status = "completed" =>
            row.confidence_score = calculate_confidence_score(row.structured_data)

\* C29: for each upload the ledger entry (document_parsing, processing) that
\* the ingestion service appends after the parse-internal acknowledgment is
\* recorded before the entry (document_parsing, completed or failed) that the
\* background task reports, so the most recent document_parsing entry of a
\* finished parse is never "processing".
C29_ProcessingRecordedFirst ==
    \A i, j \in DOMAIN ledger :
        ( /\ i < j
          /\ ledger[i].document_id = ledger[j].document_id
          /\ ledger[i].service_name = "document_parsing"
          /\ ledger[j].service_name = "document_parsing"
          /\ ledger[i].status \in {"completed", "failed"} ) =>
            ledger[j].status /= "processing"

\* C30: when parse_document runs for the same document overlap, what a client
\* polling the progress endpoint reads never goes from status processing to
\* status processing with a smaller progress, and a row that reads completed
\* with progress 100 is not read as processing again because a run that was
\* suspended in the conversion resumed.
C30_PollStep ==
    \A d \in Docs :
        LET before == get_parsing_progress(parsingDb, d)
            after == get_parsing_progress(parsingDb', d)
        IN /\ ( before.status = "processing" /\ after.status = "processing" ) =>
                 before.progress <= after.progress
           /\ ( /\ before = [status |-> "completed", progress |-> 100]
                /\ \E r \in ParseRunIds :
                     /\ parseRuns[r].doc = d
                     /\ parseRuns[r].pc = "converting"
                     /\ parseRuns'[r].pc /= "converting" ) =>
                 after.status /= "processing"

====
